---------------------------- MODULE Spec2Model ----------------------------
(***************************************************************************)
(* ObjectCache<K,V> with a pluggable eviction policy (LRUPolicy), as in    *)
(* main.cpp.  The cache keeps weak_ptr references to values owned by the   *)
(* callers; an entry is expired when the strong count of its value is 0.   *)
(*                                                                         *)
(* Spec      one caller: every public method is one atomic step.           *)
(* SpecConc  several threads: a locked method is a Lock step followed by a *)
(*           Finish step, a direct CleanupExpired is a Begin and an End    *)
(*           step and takes no lock.                                       *)
(* SpecTable one caller, starting from any table of at most MaxLen entries:*)
(*           what each method, and LRUPolicy::Evict called on its own,     *)
(*           does to a table.  The cache itself only reaches tables of at  *)
(*           most one entry, because Put evicts on every call.             *)
(***************************************************************************)
EXTENDS Integers, Sequences, FiniteSets, TLC

\* ------------------------------------------------------------- bounds ---
MaxCap    == 2      \* largest max_size given to the constructor
MaxTime   == 2      \* steady_clock readings are 0..MaxTime
MaxOwners == 2      \* largest strong count of one value
NThreads  == 2      \* threads of SpecConc
MaxLen    == 2      \* largest table SpecTable starts from

Keys    == {"a", "b", "c"}
Values  == {"v1", "v2", "v3"}
Threads == 1..NThreads

NullPtr  == "nullptr"      \* an empty shared_ptr / an unset unique_ptr
NullOpt  == "nullopt"      \* std::nullopt
NoArg    == "-"
NoThread == 0

VARIABLES
    max_size_,   \* ObjectCache::max_size_
    policy_,     \* ObjectCache::policy_ : NullPtr or "LRU"
    cache_,      \* ObjectCache::cache_ : the entries, in iteration order
    mutex_,      \* ObjectCache::mutex_ : the thread holding it, or NoThread
    owners,      \* use_count of each value (its strong owners)
    clock,       \* the last reading of steady_clock::now()
    crashed,     \* the process has died
    ub,          \* the call that completed last executed undefined behaviour
    op,          \* the call that completed last, with what it returned
    race,        \* the call that completed last raced on the table (SpecConc)
    pc,          \* per thread: the method it is in, and how far (SpecConc)
    testLRU      \* position of the caller in the TestLRU sequence

vars == <<max_size_, policy_, cache_, mutex_, owners, clock, crashed, ub, op,
          race, pc, testLRU>>

\* ------------------------------------------------------------ helpers ---
RemoveAt(c, i) == SubSeq(c, 1, i - 1) \o SubSeq(c, i + 1, Len(c))

InsertAt(c, pos, e) == SubSeq(c, 1, pos - 1) \o <<e>> \o SubSeq(c, pos, Len(c))

KeysOf(c) == {c[i].key : i \in 1..Len(c)}

\* unordered_map::find : the position of the key, 0 for end()
Find(c, k) ==
    IF \E i \in 1..Len(c) : c[i].key = k
    THEN CHOOSE i \in 1..Len(c) : c[i].key = k
    ELSE 0

\* weak_ptr::expired : no strong owner is left (an empty pointer has none)
Expired(own, v) == IF v = NullPtr THEN TRUE ELSE own[v] = 0

\* CacheEntry(v) : created_at = now() (t1), then Access() reads now() again (t2).
\* No code reads created_at, so the entry keeps only last_accessed_at.
CacheEntry(k, v, t1, t2) ==
    [key |-> k, value |-> v, last_accessed_at |-> t2]

\* mutant: Access leaves last_accessed_at as it was
Access_noop(e, t) == e

\* CacheEntry::Access
Access(e, t) == [e EXCEPT !.last_accessed_at = t]

\* mutant: after it = erase(it) the loop still does ++it, so the entry that
\* follows an erased one is not examined
RECURSIVE SweepSkip(_, _, _)
SweepSkip(c, own, i) ==
    IF i > Len(c) THEN c
    ELSE IF Expired(own, c[i].value) THEN SweepSkip(RemoveAt(c, i), own, i + 1)
    ELSE SweepSkip(c, own, i + 1)

CleanupExpired_skipAfterErase(c, own) == SweepSkip(c, own, 1)

\* ObjectCache::CleanupExpired : erase every expired entry
CleanupExpired(c, own) == SelectSeq(c, LAMBDA e : ~Expired(own, e.value))

\* the loop of LRUPolicy::Evict : lru moves only on a strictly smaller time
\* mutant: the scan compares with <=, so on equal stamps the last entry wins
RECURSIVE LRUScan_lastOnTies(_, _, _)
LRUScan_lastOnTies(c, it, lru) ==
    IF it > Len(c) THEN lru
    ELSE LRUScan_lastOnTies(c, it + 1,
                            IF c[it].last_accessed_at <= c[lru].last_accessed_at
                            THEN it ELSE lru)

RECURSIVE LRUScan(_, _, _)
LRUScan(c, it, lru) ==
    IF it > Len(c) THEN lru
    ELSE LRUScan(c, it + 1,
                 IF c[it].last_accessed_at < c[lru].last_accessed_at
                 THEN it ELSE lru)

\* mutant: the policy removes the two least recently used entries
Evict_twice(c) ==
    LET once == IF Len(c) = 0 THEN c ELSE RemoveAt(c, LRUScan(c, 1, 1))
    IN  IF Len(once) = 0 THEN once ELSE RemoveAt(once, LRUScan(once, 1, 1))

\* LRUPolicy::Evict : lru = begin() is end() on an empty table
Evict(c) ==
    LET lru == IF Len(c) = 0 THEN 0 ELSE LRUScan(c, 1, 1)
    IN  IF lru # 0 THEN RemoveAt(c, lru) ELSE c

\* mutant: lru is erased without the lru != cache.end() test
EvictDefined_noGuard(c) == Len(c) > 0

\* LRUPolicy::Evict erases lru only if lru != cache.end(), so the erase is
\* defined on every table
EvictDefined(c) == TRUE

\* cache_[key] = entry : overwrite in place, or insert a new node, whose place
\* in the iteration order the hash decides
Assign(c, k, e, pos) ==
    IF Find(c, k) # 0 THEN [c EXCEPT ![Find(c, k)] = e] ELSE InsertAt(c, pos, e)

OpRec(name, k, v, ret, ok, n) ==
    [name |-> name, key |-> k, val |-> v, ret |-> ret, ok |-> ok, n |-> n]

\* at: "idle", "call" (invoked, not yet inside), "in" (inside the method)
\* seen: the keys a sweep found expired when it started; raced: see Finish
Idle == [name |-> "idle", at |-> "idle", seen |-> {}, raced |-> FALSE]

\* ------------------------------------------------------- TestLRU driver --
\* TestLRU: cache(2); SetPolicy(LRU); Put(key1,res1); Put(key2,res2);
\* Get(key1); Put(key3,res2).  Any other call leaves the sequence (-1).
TestLRUStep(s, name, k, v) ==
    CASE name \in {"Copy"} -> s
      [] name = "Release" -> IF owners[v] > 1 THEN s ELSE -1
      [] s = 0 /\ name = "SetPolicy" /\ v = "LRU" /\ max_size_ = 2 -> 1
      [] s = 1 /\ name = "Put" /\ k = "a" /\ v = "v1" -> 2
      [] s = 2 /\ name = "Put" /\ k = "b" /\ v = "v2" -> 3
      [] s = 3 /\ name = "Get" /\ k = "a" -> 4
      [] s = 4 /\ name = "Put" /\ k = "c" /\ v \in {"v2", "v3"} -> 5
      [] OTHER -> -1

\* ---------------------------------------------------------------- Init ---
Init ==
    /\ max_size_ \in 0..MaxCap
    /\ policy_ = NullPtr
    /\ cache_ = <<>>
    /\ mutex_ = NoThread
    /\ owners = [v \in Values |-> 1]
    /\ clock = 0
    /\ crashed = FALSE
    /\ ub = FALSE
    /\ op = OpRec("new", NoArg, NoArg, NoArg, FALSE, 0)
    /\ race = FALSE
    /\ pc = [t \in Threads |-> Idle]
    /\ testLRU = 0

\* ------------------------------------------------- bodies of the methods --
\* Each body is what the method does between taking and dropping the lock.

SetPolicyBody(p) ==
    /\ policy_' = p
    /\ op' = OpRec("SetPolicy", NoArg, p, NoArg, FALSE, 0)
    /\ ub' = FALSE
    /\ UNCHANGED <<max_size_, cache_, owners, clock, crashed>>

\* the tail of Put: cache_[key] = CacheEntry(val)
PutInsert(c, k, v) ==
    \E d1 \in 0..1, d2 \in 0..1, pos \in 1..(Len(c) + 1) :
        /\ clock + d1 + d2 <= MaxTime
        /\ cache_' = Assign(c, k, CacheEntry(k, v, clock + d1, clock + d1 + d2), pos)
        /\ clock' = clock + d1 + d2
        /\ op' = OpRec("Put", k, v, NoArg, FALSE, 0)

\* mutant: the entry keeps a shared_ptr, so the cache owns the value
PutOwners_strong(own, v) ==
    IF v = NullPtr THEN own ELSE [own EXCEPT ![v] = @ + 1]

\* The strong counts after Put returns: val (by value) and the constructor's
\* v are copies that die with the call; the entry keeps a weak_ptr.
PutOwners(own, v) == own

\* Put: sweep, then evict (always), then insert.  Without a policy the code
\* erases cache_.begin(); on an empty table that is erase(end()): undefined.
PutBody(k, v) ==
    LET swept == CleanupExpired(cache_, owners) IN
    /\ owners' = PutOwners(owners, v)
    /\ UNCHANGED <<max_size_, policy_>>
    /\ IF policy_ # NullPtr
       THEN /\ PutInsert(Evict(swept), k, v)
            /\ ub' = ~EvictDefined(swept)
            /\ UNCHANGED crashed
       ELSE IF Len(swept) > 0
       THEN /\ PutInsert(RemoveAt(swept, 1), k, v)
            /\ ub' = FALSE
            /\ UNCHANGED crashed
       ELSE /\ ub' = TRUE
            /\ \/ /\ crashed' = TRUE
                  /\ cache_' = swept
                  /\ op' = OpRec("Put", k, v, NoArg, FALSE, 0)
                  /\ UNCHANGED clock
               \/ /\ PutInsert(swept, k, v)
                  /\ UNCHANGED crashed

\* mutant: the expired() test of Get is inverted
GetResult_expiredInverted(c, own, k) ==
    IF Find(c, k) = 0 THEN NullOpt
    ELSE IF ~Expired(own, c[Find(c, k)].value) THEN NullOpt
    ELSE c[Find(c, k)].value

\* what Get returns: nullopt, or value.lock()
GetResult(c, own, k) ==
    IF Find(c, k) = 0 THEN NullOpt
    ELSE IF Expired(own, c[Find(c, k)].value) THEN NullOpt
    ELSE c[Find(c, k)].value

GetBody(k) ==
    LET it == Find(cache_, k)
        r  == GetResult(cache_, owners, k)
    IN
    /\ op' = OpRec("Get", k, NoArg, r, FALSE, 0)
    /\ ub' = FALSE
    /\ UNCHANGED <<max_size_, policy_, crashed>>
    /\ IF it = 0
       THEN UNCHANGED <<cache_, owners, clock>>
       ELSE IF Expired(owners, cache_[it].value)
       THEN /\ cache_' = RemoveAt(cache_, it)
            /\ UNCHANGED <<owners, clock>>
       ELSE \E d \in 0..1 :
            /\ clock + d <= MaxTime
            /\ owners[cache_[it].value] < MaxOwners
            /\ cache_' = [cache_ EXCEPT ![it] = Access(cache_[it], clock + d)]
            /\ clock' = clock + d
            /\ owners' = [owners EXCEPT ![cache_[it].value] = @ + 1]

\* mutant: Contains looks the key up and forgets the expired() test
ContainsResult_findOnly(c, own, k) == Find(c, k) # 0

\* mutant: Contains refreshes the entry it finds, as Get does
ContainsBody_access(k) ==
    /\ op' = OpRec("Contains", k, NoArg, NoArg, Find(cache_, k) # 0, 0)
    /\ ub' = FALSE
    /\ UNCHANGED <<max_size_, policy_, owners, crashed>>
    /\ IF Find(cache_, k) = 0
       THEN UNCHANGED <<cache_, clock>>
       ELSE \E d \in 0..1 :
            /\ clock + d <= MaxTime
            /\ cache_' = [cache_ EXCEPT ![Find(cache_, k)] = Access(@, clock + d)]
            /\ clock' = clock + d

\* what Contains returns
ContainsResult(c, own, k) ==
    Find(c, k) # 0 /\ ~Expired(own, c[Find(c, k)].value)

ContainsBody(k) ==
    /\ op' = OpRec("Contains", k, NoArg, NoArg, ContainsResult(cache_, owners, k), 0)
    /\ ub' = FALSE
    /\ UNCHANGED <<max_size_, policy_, cache_, owners, clock, crashed>>

SizeBody ==
    /\ op' = OpRec("Size", NoArg, NoArg, NoArg, FALSE, Len(cache_))
    /\ ub' = FALSE
    /\ UNCHANGED <<max_size_, policy_, cache_, owners, clock, crashed>>

\* mutant: Clear drops the expired entries only
ClearBody_sweep ==
    /\ cache_' = CleanupExpired(cache_, owners)
    /\ op' = OpRec("Clear", NoArg, NoArg, NoArg, FALSE, Len(cache_))
    /\ ub' = FALSE
    /\ UNCHANGED <<max_size_, policy_, owners, clock, crashed>>

\* ObjectCache::Clear ; op.n records how many entries the table held
ClearBody ==
    /\ cache_' = <<>>
    /\ op' = OpRec("Clear", NoArg, NoArg, NoArg, FALSE, Len(cache_))
    /\ ub' = FALSE
    /\ UNCHANGED <<max_size_, policy_, owners, clock, crashed>>

\* mutant: the sweep calls Access() on the entries it keeps
CleanupExpiredBody_access ==
    LET swept == CleanupExpired(cache_, owners) IN
    /\ cache_' = [i \in 1..Len(swept) |-> Access(swept[i], clock)]
    /\ op' = OpRec("CleanupExpired", NoArg, NoArg, NoArg, FALSE,
                   Len(cache_) - Len(swept))
    /\ ub' = FALSE
    /\ UNCHANGED <<max_size_, policy_, owners, clock, crashed>>

\* the public CleanupExpired, called alone; op.n records how many entries
\* it erased
CleanupExpiredBody ==
    /\ cache_' = CleanupExpired(cache_, owners)
    /\ op' = OpRec("CleanupExpired", NoArg, NoArg, NoArg, FALSE,
                   Len(cache_) - Len(CleanupExpired(cache_, owners)))
    /\ ub' = FALSE
    /\ UNCHANGED <<max_size_, policy_, owners, clock, crashed>>

\* ------------------------------------------------ the callers' values ---
\* a caller copies a shared_ptr it holds
CopyOwner(v) ==
    /\ ~crashed
    /\ owners[v] >= 1 /\ owners[v] < MaxOwners
    /\ owners' = [owners EXCEPT ![v] = @ + 1]
    /\ op' = OpRec("Copy", NoArg, NoArg, NoArg, FALSE, 0)
    /\ testLRU' = TestLRUStep(testLRU, "Copy", NoArg, v)
    /\ ub' = FALSE
    /\ UNCHANGED <<max_size_, policy_, cache_, mutex_, clock, crashed, race, pc>>

\* a caller drops a shared_ptr (its own, or a handle Get returned)
ReleaseOwner(v) ==
    /\ ~crashed
    /\ owners[v] >= 1
    /\ owners' = [owners EXCEPT ![v] = @ - 1]
    /\ op' = OpRec("Release", NoArg, NoArg, NoArg, FALSE, 0)
    /\ testLRU' = TestLRUStep(testLRU, "Release", NoArg, v)
    /\ ub' = FALSE
    /\ UNCHANGED <<max_size_, policy_, cache_, mutex_, clock, crashed, race, pc>>

\* the shared_ptr arguments a caller can pass to Put
PutArgs == {v \in Values : owners[v] >= 1} \cup {NullPtr}

\* ------------------------------------------------- Spec: one caller -----
Caller(name, k, v) ==
    /\ ~crashed
    /\ mutex_ = NoThread
    /\ testLRU' = TestLRUStep(testLRU, name, k, v)
    /\ UNCHANGED <<mutex_, race, pc>>

SetPolicy(p) == Caller("SetPolicy", NoArg, p) /\ SetPolicyBody(p)

Put(k, v) == Caller("Put", k, v) /\ PutBody(k, v)

Get(k) == Caller("Get", k, NoArg) /\ GetBody(k)

Contains(k) == Caller("Contains", k, NoArg) /\ ContainsBody(k)

Size == Caller("Size", NoArg, NoArg) /\ SizeBody

Clear == Caller("Clear", NoArg, NoArg) /\ ClearBody

CleanupExpiredCall == Caller("CleanupExpired", NoArg, NoArg) /\ CleanupExpiredBody

Next ==
    \/ \E p \in {NullPtr, "LRU"} : SetPolicy(p)
    \/ \E k \in Keys : \E v \in PutArgs : Put(k, v)
    \/ \E k \in Keys : Get(k)
    \/ \E k \in Keys : Contains(k)
    \/ Size
    \/ Clear
    \/ CleanupExpiredCall
    \/ \E v \in Values : CopyOwner(v)
    \/ \E v \in Values : ReleaseOwner(v)

Spec == Init /\ [][Next]_vars

\* --------------------------------------------- SpecConc: several threads --
\* the arguments the threads of SpecConc pass
ConcKeys   == {"a", "b"}
ConcValues == {"v1", "v2"}

Methods == {"SetPolicy", "Put", "Get", "Contains", "Size", "Clear", "CleanupExpired"}

\* std::lock_guard<std::mutex> lock(mutex_) is the first statement of every
\* public method but CleanupExpired, which Put calls with the lock held
Locks(m) == m # "CleanupExpired"

\* the methods that read or write cache_ (SetPolicy touches policy_ only)
TableMethods == Methods \ {"SetPolicy"}

ExpiredKeys(c, own) == {c[i].key : i \in {j \in 1..Len(c) : Expired(own, c[j].value)}}

\* a thread invokes a method
Call(t, m) ==
    /\ ~crashed
    /\ pc[t].at = "idle"
    /\ pc' = [pc EXCEPT ![t] = [name |-> m, at |-> "call", seen |-> {}, raced |-> FALSE]]
    /\ UNCHANGED <<max_size_, policy_, cache_, mutex_, owners, clock, crashed, ub,
                   op, race, testLRU>>

\* the thread gets inside: lock_guard's constructor returns (the mutex was
\* free), or, for CleanupExpired, the loop starts at cache_.begin()
Enter(t) ==
    /\ ~crashed
    /\ pc[t].at = "call"
    /\ IF Locks(pc[t].name)
       THEN /\ mutex_ = NoThread
            /\ mutex_' = t
            /\ pc' = [pc EXCEPT ![t].at = "in"]
       ELSE /\ UNCHANGED mutex_
            /\ pc' = [pc EXCEPT ![t].at = "in",
                                ![t].seen = ExpiredKeys(cache_, owners)]
    /\ UNCHANGED <<max_size_, policy_, cache_, owners, clock, crashed, ub, op,
                   race, testLRU>>

\* may the method m of a thread inside write cache_ ?
MayWrite(t) ==
    \/ pc[t].name \in {"Put", "Get", "Clear"}
    \/ pc[t].name = "CleanupExpired"
       /\ (pc[t].seen # {} \/ ExpiredKeys(cache_, owners) # {})

\* Two threads are inside methods that use cache_, no lock orders them and
\* one of them writes: a data race.
Conflict(t) ==
    /\ pc[t].name \in TableMethods
    /\ \E u \in Threads \ {t} :
         /\ pc[u].at = "in"
         /\ pc[u].name \in TableMethods
         /\ ~(Locks(pc[t].name) /\ Locks(pc[u].name))
         /\ (MayWrite(t) \/ MayWrite(u))

\* the body of the method the thread is in, with the arguments of the call
Body(t) ==
    CASE pc[t].name = "SetPolicy" -> \E p \in {NullPtr, "LRU"} : SetPolicyBody(p)
      [] pc[t].name = "Put"       -> \E k \in ConcKeys :
                                        \E v \in PutArgs \cap (ConcValues \cup {NullPtr}) :
                                            PutBody(k, v)
      [] pc[t].name = "Get"       -> \E k \in ConcKeys : GetBody(k)
      [] pc[t].name = "Contains"  -> \E k \in ConcKeys : ContainsBody(k)
      [] pc[t].name = "Size"      -> SizeBody
      [] pc[t].name = "Clear"     -> ClearBody
      [] pc[t].name = "CleanupExpired" -> CleanupExpiredBody

\* the thread leaves: pc and lock after the method returns (a call that
\* killed the process does not return); the sweeps still inside have raced
\* if this call did
Leave(t, r) ==
    /\ mutex_' = IF Locks(pc[t].name) /\ ~crashed' THEN NoThread ELSE mutex_
    /\ pc' = [u \in Threads |->
                IF u = t THEN (IF crashed' THEN pc[t] ELSE Idle)
                ELSE IF r /\ pc[u].at = "in" /\ pc[u].name \in TableMethods
                THEN [pc[u] EXCEPT !.raced = TRUE]
                ELSE pc[u]]
    /\ race' = r
    /\ UNCHANGED testLRU

\* the method runs and returns
Finish(t) ==
    /\ ~crashed
    /\ pc[t].at = "in"
    /\ Body(t)
    /\ Leave(t, Conflict(t) \/ pc[t].raced)

\* A data race is undefined behaviour.  Two of the outcomes a build produces:
\* the process dies (a freed node is followed or freed again) ...
RaceCrash(t) ==
    /\ ~crashed
    /\ pc[t].at = "in"
    /\ Conflict(t) \/ pc[t].raced
    /\ crashed' = TRUE
    /\ race' = TRUE
    /\ ub' = FALSE
    /\ UNCHANGED <<max_size_, policy_, cache_, mutex_, owners, clock, op,
                   pc, testLRU>>

\* ... or a sweep erases through its stale iterator: the node it found expired
\* was freed by the other thread and reused for a new entry, which it erases
RaceStaleErase(t) ==
    /\ ~crashed
    /\ pc[t].at = "in"
    /\ pc[t].name = "CleanupExpired"
    /\ pc[t].raced
    /\ cache_' = SelectSeq(cache_, LAMBDA e : e.key \notin pc[t].seen)
    /\ op' = OpRec("CleanupExpired", NoArg, NoArg, NoArg, FALSE, 0)
    /\ ub' = FALSE
    /\ UNCHANGED <<max_size_, policy_, owners, clock, crashed>>
    /\ Leave(t, TRUE)

NextConc ==
    \/ \E t \in Threads : \E m \in Methods : Call(t, m)
    \/ \E t \in Threads : Enter(t)
    \/ \E t \in Threads : Finish(t)
    \/ \E t \in Threads : RaceCrash(t)
    \/ \E t \in Threads : RaceStaleErase(t)
    \/ \E v \in ConcValues : CopyOwner(v)
    \/ \E v \in ConcValues : ReleaseOwner(v)

InitConc == Init /\ max_size_ = MaxCap

SpecConc == InitConc /\ [][NextConc]_vars

\* ------------------------------- SpecTable: the methods on any table -----
\* the values of the entries SpecTable starts from
TableValues == {"v1", "v2"}

TableEntries ==
    [key : Keys, value : TableValues, last_accessed_at : 0..MaxTime]

\* the well-formed tables: keys are unique
Tables ==
    UNION {{s \in [1..n -> TableEntries] :
               \A i \in 1..n : \A j \in 1..n : i # j => s[i].key # s[j].key}
           : n \in 0..MaxLen}

\* what SpecTable passes to Put: the tables it starts from hold every
\* arrangement of the keys and values, so one key and one value reach every
\* case (key present or absent, value shared with an entry or not)
TablePutKeys   == {"a"}
TablePutValues == {"v1", NullPtr}

RECURSIVE MaxStamp(_, _)
MaxStamp(c, i) ==
    IF i > Len(c) THEN 0
    ELSE IF c[i].last_accessed_at > MaxStamp(c, i + 1)
         THEN c[i].last_accessed_at ELSE MaxStamp(c, i + 1)

\* LRUPolicy::Evict called on a table; op.n is the number of entries it erased
EvictCall ==
    /\ Caller("Evict", NoArg, NoArg)
    /\ cache_' = Evict(cache_)
    /\ ub' = ~EvictDefined(cache_)
    /\ op' = OpRec("Evict", NoArg, NoArg, NoArg, FALSE, Len(cache_) - Len(Evict(cache_)))
    /\ UNCHANGED <<max_size_, policy_, owners, clock, crashed>>

\* any table, values alive or released, with or without a policy; the clock
\* has reached the latest stamp in the table
InitTable ==
    /\ max_size_ = MaxCap
    /\ policy_ \in {NullPtr, "LRU"}
    /\ cache_ \in Tables
    /\ mutex_ = NoThread
    /\ owners \in {f \in [Values -> 0..1] : \A v \in Values \ TableValues : f[v] = 1}
    /\ clock = MaxStamp(cache_, 1)
    /\ crashed = FALSE
    /\ ub = FALSE
    /\ op = OpRec("new", NoArg, NoArg, NoArg, FALSE, 0)
    /\ race = FALSE
    /\ pc = [t \in Threads |-> Idle]
    /\ testLRU = -1

NextTable ==
    \/ \E k \in TablePutKeys : \E v \in PutArgs \cap TablePutValues : Put(k, v)
    \/ \E k \in Keys : Get(k)
    \/ CleanupExpiredCall
    \/ EvictCall
    \/ \E v \in TableValues : ReleaseOwner(v)

SpecTable == InitTable /\ [][NextTable]_vars

\* ================================================================ claims ==
\* In Spec every step is one completed call and sets op, so a step that ends
\* with op.name = "Put" is a Put step.

\* C1: after each Put returns, the table holds at most max_size entries.
C1_SizeWithinCapacity ==
    (op.name = "Put" /\ ~crashed /\ ~ub) => Len(cache_) <= max_size_

\* C2: capacity 2, LRU policy, Put(a,v1); Put(b,v2); Get(a); Put(c,v3) with the
\* values alive: a and c are contained, b is not, and the size is 2.
C2_TestLRUEvictsB ==
    testLRU = 5 =>
        /\ ContainsResult(cache_, owners, "a")
        /\ ContainsResult(cache_, owners, "c")
        /\ ~ContainsResult(cache_, owners, "b")
        /\ Len(cache_) = 2

\* C3: a Put that finds fewer than max_size live entries removes none of them
\* (stated for a cache with a policy installed, where Put is always defined).
C3_PutEvictsOnlyWhenFull ==
    [][ (op'.name = "Put" /\ policy_ # NullPtr
           /\ Len(CleanupExpired(cache_, owners)) < max_size_)
        => \A i \in 1..Len(cache_) :
               (cache_[i].value # NullPtr /\ owners[cache_[i].value] > 0)
                   => cache_[i].key \in KeysOf(cache_') ]_vars

\* C4: Get of a key that is not in the table returns nullopt, and Get(k) right
\* after Put(k, v), v owned by the caller, returns v.
C4_RoundTrip ==
    [][ op'.name = "Get" =>
          /\ (op'.key \notin KeysOf(cache_)) => op'.ret = NullOpt
          /\ (op.name = "Put" /\ op.key = op'.key /\ op.val # NullPtr)
                => op'.ret = op.val ]_vars

C4_Witness ==
    /\ op.name = "Put" /\ ~crashed /\ ~ub /\ op.val \in Values
    /\ owners[op.val] < MaxOwners
    /\ GetResult(cache_, owners, op.key) = op.val

\* C5: when no strong owner of the value stored under k is left, Get(k) returns
\* nullopt and Contains(k) returns false, with no sweep and no Put in between.
C5_ReleasedIsAbsent ==
    [][ \A i \in 1..Len(cache_) :
          (cache_[i].key = op'.key /\ cache_[i].value # NullPtr
             /\ owners[cache_[i].value] = 0)
          => /\ op'.name = "Get" => op'.ret = NullOpt
             /\ op'.name = "Contains" => op'.ok = FALSE ]_vars

C5_Witness ==
    /\ op.name = "Contains" /\ op.ok = FALSE
    /\ \E i \in 1..Len(cache_) :
         /\ cache_[i].key = op.key
         /\ cache_[i].value # NullPtr
         /\ owners[cache_[i].value] = 0

\* C6: no method but Get changes a strong count, a successful Get adds exactly
\* the handle it returns, and a value nobody owns is never owned again.
C6_CacheHoldsNoStrongRef ==
    [][ /\ op'.name \in {"Put", "Contains", "Size", "Clear", "CleanupExpired",
                        "SetPolicy"} => owners' = owners
        /\ op'.name = "Get" =>
             owners' = IF op'.ret = NullOpt THEN owners
                       ELSE [owners EXCEPT ![op'.ret] = @ + 1]
        /\ \A v \in Values : owners[v] = 0 => owners'[v] = 0 ]_vars

C6_Witness ==
    /\ op.name = "Put" /\ ~crashed /\ ~ub /\ op.val \in Values
    /\ owners[op.val] = 1
    /\ \E i \in 1..Len(cache_) : cache_[i].value = op.val

\* C7: Put always succeeds: no crash, no undefined behaviour, and the key is
\* mapped to the value afterwards.
C7_PutAlwaysSucceeds ==
    op.name = "Put" =>
        /\ ~crashed
        /\ ~ub
        /\ \E i \in 1..Len(cache_) :
             cache_[i].key = op.key /\ cache_[i].value = op.val

\* C8: no two threads are inside methods that use the entry table at once.
C8_MutualExclusion ==
    \A t \in Threads : \A u \in Threads \ {t} :
        ~(/\ pc[t].at = "in" /\ pc[t].name \in TableMethods
          /\ pc[u].at = "in" /\ pc[u].name \in TableMethods)

\* C9: the calls take effect as in one sequential order.  Two consequences:
\* no call dies of a race (ub marks the death of a Put by its own erase of
\* end(), which a sequential run has too), and a sweep, which in any order
\* removes expired entries only, leaves every live entry in the table.
C9_Linearizable ==
    [][ /\ ~(crashed' /\ race' /\ ~ub')
        /\ \A t \in Threads :
             (pc[t].at = "in" /\ pc[t].name = "CleanupExpired" /\ pc'[t].at = "idle")
             => \A i \in 1..Len(cache_) :
                    ~Expired(owners, cache_[i].value)
                        => cache_[i].key \in KeysOf(cache_') ]_vars

\* C10: Contains(k) returns true iff k is in the table with a live value, and
\* leaves the table, the access times and the next LRU victim as they were.
C10_ContainsIsPure ==
    [][ op'.name = "Contains" =>
          /\ op'.ok = (\E i \in 1..Len(cache_) :
                          /\ cache_[i].key = op'.key
                          /\ cache_[i].value # NullPtr
                          /\ owners[cache_[i].value] > 0)
          /\ cache_' = cache_
          /\ Evict(cache_') = Evict(cache_) ]_vars

C10_Witness ==
    /\ op.name = "Contains" /\ op.ok = TRUE
    /\ \E i \in 1..Len(cache_) : cache_[i].key = op.key

\* C11: CleanupExpired called twice in a row, nothing in between, leaves the
\* table after the second call as it was after the first.
C11_SweepIdempotent ==
    [][ (op.name = "CleanupExpired" /\ op'.name = "CleanupExpired")
        => cache_' = cache_ ]_vars

C11_Witness ==
    /\ op.name = "CleanupExpired"
    /\ Len(cache_) >= 1
    /\ \E v \in TableValues : owners[v] = 0
    /\ ENABLED CleanupExpiredCall

\* C12: Clear empties the table, and from then until the next Put the table
\* stays empty, Size returns 0 and Contains returns false for every key.
C12_ClearEmpties ==
    [][ /\ op'.name = "Clear" => cache_' = <<>>
        /\ (cache_ = <<>> /\ op'.name # "Put") => cache_' = <<>>
        /\ (cache_ = <<>> /\ op'.name = "Size") => op'.n = 0
        /\ (cache_ = <<>> /\ op'.name = "Contains") => ~op'.ok ]_vars

\* Clear has just dropped a live entry
C12_Witness ==
    /\ op.name = "Clear" /\ op.n >= 1
    /\ cache_ = <<>>
    /\ \A v \in Values : owners[v] >= 1

\* C13: a cache of capacity 0 is rejected at construction, so no Put or Get
\* ever completes on a cache whose capacity is 0.  The constructor stores
\* max_size without looking at it.
C13_ZeroCapacityRejected ==
    max_size_ = 0 => ~(op.name \in {"Put", "Get"} /\ ~crashed /\ ~ub)

\* C14: LRUPolicy::Evict on an empty table removes nothing, does not fail and
\* leaves the table empty; so does the Evict that Put runs on a table its
\* sweep left empty.
C14_EvictEmptyNoOp ==
    [][ /\ (op'.name = "Evict" /\ cache_ = <<>>)
           => (cache_' = <<>> /\ op'.n = 0 /\ ~ub' /\ ~crashed')
        /\ (op'.name = "Put" /\ policy_ # NullPtr
              /\ CleanupExpired(cache_, owners) = <<>>)
           => (~ub' /\ ~crashed' /\ Len(cache_') = 1) ]_vars

C14_Witness ==
    op.name = "Evict" /\ op.n = 0 /\ cache_ = <<>> /\ ~ub /\ ~crashed

\* C15: LRUPolicy::Evict on a non-empty table removes exactly one entry, one
\* with the smallest last_accessed_at and, among equals, the first in
\* iteration order; every other entry is left as it was.
C15_EvictRemovesOldest ==
    [][ (op'.name = "Evict" /\ Len(cache_) > 0)
        => \E i \in 1..Len(cache_) :
             /\ cache_' = RemoveAt(cache_, i)
             /\ \A j \in 1..Len(cache_) :
                  cache_[i].last_accessed_at <= cache_[j].last_accessed_at
             /\ \A j \in 1..(i - 1) :
                  cache_[i].last_accessed_at < cache_[j].last_accessed_at ]_vars

C15_Witness ==
    op.name = "Evict" /\ op.n = 1 /\ Len(cache_) >= 1 /\ ~ub

\* C16: one Put(k, v) removes at most one entry that is not expired and whose
\* key differs from k, with a policy or with the no-policy fallback.
C16_PutEvictsAtMostOne ==
    [][ op'.name = "Put"
        => Cardinality({i \in 1..Len(cache_) :
                          /\ ~Expired(owners, cache_[i].value)
                          /\ cache_[i].key # op'.key
                          /\ Find(cache_', cache_[i].key) = 0}) <= 1 ]_vars

\* a Put on a table of MaxLen live entries has evicted one and inserted its own
C16_Witness ==
    /\ op.name = "Put" /\ ~ub /\ ~crashed
    /\ Len(cache_) = MaxLen
    /\ Find(cache_, op.key) # 0

\* C17: a Get(k) that finds k with an expired value removes exactly that
\* entry and returns nullopt; one that finds k alive sets that entry's
\* last_accessed_at to now, changes no other entry and returns the value.
C17_GetLazyCleanup ==
    [][ (op'.name = "Get" /\ Find(cache_, op'.key) # 0)
        => LET it == Find(cache_, op'.key) IN
           IF Expired(owners, cache_[it].value)
           THEN /\ cache_' = RemoveAt(cache_, it)
                /\ Len(cache_') = Len(cache_) - 1
                /\ op'.ret = NullOpt
           ELSE /\ cache_' = [cache_ EXCEPT ![it].last_accessed_at = clock']
                /\ clock' >= clock
                /\ op'.ret = cache_[it].value ]_vars

\* a hit in a table of several entries, the entry found now the most recent
C17_Witness ==
    /\ op.name = "Get" /\ op.ret \in Values
    /\ Len(cache_) >= 2
    /\ cache_[Find(cache_, op.key)].last_accessed_at = clock
    /\ \E j \in 1..Len(cache_) : cache_[j].last_accessed_at < clock

\* C18: CleanupExpired removes every entry whose value is expired and no
\* other; the entries it keeps are unchanged, last_accessed_at included.
C18_SweepRemovesExpiredOnly ==
    [][ op'.name = "CleanupExpired"
        => /\ \A j \in 1..Len(cache_') : ~Expired(owners, cache_'[j].value)
           /\ \A i \in 1..Len(cache_) :
                ~Expired(owners, cache_[i].value)
                => \E j \in 1..Len(cache_') : cache_'[j] = cache_[i]
           /\ \A j \in 1..Len(cache_') :
                \E i \in 1..Len(cache_) : cache_[i] = cache_'[j]
           /\ Len(cache_') =
                Cardinality({i \in 1..Len(cache_) :
                               ~Expired(owners, cache_[i].value)}) ]_vars

\* a sweep has erased an entry and kept one whose stamp is older than now
C18_Witness ==
    /\ op.name = "CleanupExpired" /\ op.n >= 1
    /\ \E j \in 1..Len(cache_) : cache_[j].last_accessed_at < clock

\* C19: a key that is not alive (no entry, or an entry whose value has no
\* owner left) stays so through every call but a Put on that key; until that
\* Put, Get on it returns nullopt and Contains on it returns false.
C19_NoReturnToAlive ==
    [][ LET Alive(k) ==
                \E i \in 1..Len(cache_) :
                    /\ cache_[i].key = k
                    /\ cache_[i].value # NullPtr
                    /\ owners[cache_[i].value] >= 1
        IN  \A k \in Keys :
              ~Alive(k)
              => /\ Alive(k)' => (op'.name = "Put" /\ op'.key = k)
                 /\ (op'.name = "Get" /\ op'.key = k) => op'.ret = NullOpt
                 /\ (op'.name = "Contains" /\ op'.key = k) => ~op'.ok ]_vars

\* a Get missed on a key whose entry lazy cleanup has just removed: the
\* table is empty and a value that was put has lost its last owner
C19_Witness ==
    /\ op.name = "Get" /\ op.ret = NullOpt
    /\ cache_ = <<>> /\ policy_ # NullPtr
    /\ \E v \in Values : owners[v] = 0

\* C20: every call a thread has invoked gets the lock, runs to completion and
\* returns.  Once the process has died no step is left to any thread, so a
\* call that is invoked or inside when it dies never completes.
C20_EveryCallCompletes ==
    \A t \in Threads : pc[t].at \in {"call", "in"} => ~crashed

=============================================================================
